---------------------------- MODULE Spec2Model ----------------------------
(***************************************************************************)
(* BookletDC backend: the session store of backend/api/image_storage.py    *)
(* (temporary image upload, processing, explicit and time-based cleanup)   *)
(* and the retention sweep of generated PDFs of backend/api/pdf_api.py.    *)
(*                                                                         *)
(* Time is counted in hours: MAX_SESSION_AGE = timedelta(hours=2) is 2 and *)
(* the sleep of periodic_cleanup (3600 s) is 1.                            *)
(***************************************************************************)
EXTENDS Integers, Sequences, FiniteSets, TLC

VARIABLES
    now,              \* datetime.now(), in hours
    active_sessions,  \* image_storage.active_sessions: session id -> session
    temp_dirs,        \* TEMP_STORAGE_DIR/<session id>: the .jpg files in it
    uploads,          \* store-temp requests suspended at their await
    deleted,          \* history: ids a cleanup-session call removed (see Forget)
    last,             \* history: the handler that ran last, and its outcome
    pdf_files,        \* storage/generated_pdfs: the PDF files, oldest first
    sidecars,         \* storage/generated_pdfs: the .json metadata files
    file_contents,    \* storage/generated_pdfs: what each file holds
    active_connections, \* websocket_handler.manager.active_connections
    handlers,         \* the WebSocket endpoint coroutines, one per connection
    ws_open,          \* which clients still hold their WebSocket open
    clock,            \* time.time(), in seconds
    last_heartbeat,   \* main.last_heartbeat
    monitor,          \* the check_heartbeat task
    shutdown_task,    \* main.shutdown_task
    kill_tasks,       \* delayed_shutdown tasks of /api/shutdown (wake times)
    server,           \* the server process: "up", or "down" after SIGTERM
    scan_now,         \* datetime.now() as scanner.py reads it, in thirds of a second
    scanning_sessions, \* scanner.scanning_sessions: session id -> session
    current_session,  \* scanner.current_session
    connected_cameras, \* camera.connected_cameras: side -> configuration
    camera_streams    \* camera.camera_streams: side -> stream info

pdf_vars == <<pdf_files, sidecars, file_contents>>
session_vars == <<now, active_sessions, temp_dirs, uploads, deleted>>
ws_vars == <<active_connections, handlers, ws_open>>
hb_vars == <<clock, last_heartbeat, monitor, shutdown_task, kill_tasks, server>>
scan_vars == <<scan_now, scanning_sessions, current_session>>
cam_vars == <<connected_cameras, camera_streams>>
vars == <<now, active_sessions, temp_dirs, uploads, deleted, last,
          pdf_files, sidecars, file_contents,
          active_connections, handlers, ws_open,
          clock, last_heartbeat, monitor, shutdown_task, kill_tasks, server,
          scan_now, scanning_sessions, current_session,
          connected_cameras, camera_streams>>

----------------------------------------------------------------------------
(* Bounds of the model *)

MaxTime == 4
MaxImages == 2
MaxInflight == 1
MaxLimit == 2
MaxFailures == 1

(* Program constants *)

MAX_SESSION_AGE == 2
\* periodic_cleanup: asyncio.sleep(3600)
CLEANUP_INTERVAL == 1

----------------------------------------------------------------------------
(* Values *)

SessionIds == {"s1", "s2"}
ImageIds == {"a", "b"}
\* meta.get(...) of a missing key (None) or an empty string
NoneId == "none"
NoSession == [absent |-> TRUE]
NoDir == [exists |-> FALSE, files |-> {}]
Dir(files) == [exists |-> TRUE, files |-> files]

\* The record store_temporary_image appends; process_image adds the keys
\* processed_path, thumbnail_path, ... to it ('processed_path' in img).
\* 'stored_at' is datetime.now() of the upload; 'processed_at', which only
\* process_image sets, is Never until then.
Never == -1
ImageRecord(iid, t) == [id |-> iid, stored_at |-> t, processed_at |-> Never]

NewSession(t) == [created |-> t, images |-> <<>>, pdf_name |-> "None"]

\* HTTP outcomes
OK == 200
BadRequest == 400
NotFound == 404
Internal == 500

\* No exception raised in the handler's try block.
NoRaise == 0
\* A failing read or write of the upload (an OSError).
IOError == 1

\* "except Exception as e: raise HTTPException(status_code=500, ...)": the
\* handlers' own HTTPException(400), HTTPException(404) are Exceptions too.
ExceptException(raised) == IF raised = NoRaise THEN OK ELSE Internal

\* The handler that ran, its arguments, what its try block raised, the status
\* it answered with, the count it returned and the sessions it removed from
\* the store (pairs of id and session).
Event(op, sid, iid, raised, count, removed) ==
    [op |-> op, sid |-> sid, iid |-> iid, raised |-> raised,
     status |-> ExceptException(raised), count |-> count, removed |-> removed]

InStore(sid) == active_sessions[sid] # NoSession

\* History: an id stays in deleted while it is absent from the store, and
\* through the handler that brings it back.
Forget == {s \in deleted : ~InStore(s)}

\* The WebSocket clients: c1 connects to /ws/camera-stream, the others to
\* /ws/scanner-updates.
Conns == {"c1", "c2", "c3"}
CameraStream == "camera-stream"
ScannerUpdates == "scanner-updates"
Endpoint(c) == IF c = "c1" THEN CameraStream ELSE ScannerUpdates

\* An endpoint coroutine: where it stands (pc), frame_count of
\* send_mock_frames, the position of the iterator of broadcast's for loop,
\* and the exception that ended it.  History: the list as it was when the
\* broadcast started (snapshot) and the connections it tried to send to.
NoError == "none"
IdleHandler ==
    [pc |-> "idle", frame_count |-> 0, index |-> 0, snapshot |-> <<>>,
     attempted |-> {}, error |-> NoError]

\* An asyncio task sleeping until wake_at, or no such task.
NoTask == [state |-> "none", wake_at |-> 0]
Sleeping(wake_at) == [state |-> "sleeping", wake_at |-> wake_at]

\* asyncio.sleep(1) of check_heartbeat and of delayed_shutdown, in seconds.
CHECK_INTERVAL == 1
SHUTDOWN_DELAY == 1
heartbeat_timeout == 5

----------------------------------------------------------------------------
(* The state after import of the modules and startup_event: no session, no  *)
(* session directory, no PDF, no connection, the heartbeat monitor started  *)

\* A dict without keys; None as the value of scanner.current_session.
EmptyDict == [k \in {} |-> k]
NoCurrent == <<>>

Init ==
    /\ now = 0
    /\ active_sessions = [s \in SessionIds |-> NoSession]
    /\ temp_dirs = [s \in SessionIds |-> NoDir]
    /\ uploads = {}
    /\ deleted = {}
    /\ last = Event("init", NoneId, NoneId, NoRaise, 0, {})
    /\ pdf_files = <<>>
    /\ sidecars = {}
    /\ file_contents = EmptyDict
    /\ active_connections = <<>>
    /\ handlers = [c \in Conns |-> IdleHandler]
    /\ ws_open = [c \in Conns |-> FALSE]
    /\ clock = 0
    /\ last_heartbeat = 0
    /\ monitor = Sleeping(CHECK_INTERVAL)
    /\ shutdown_task = NoTask
    /\ kill_tasks = {}
    /\ server = "up"
    /\ scan_now = 0
    /\ scanning_sessions = EmptyDict
    /\ current_session = NoCurrent
    /\ connected_cameras = EmptyDict
    /\ camera_streams = EmptyDict

Tick ==
    /\ now < MaxTime
    /\ now' = now + 1
    /\ deleted' = Forget
    /\ last' = Event("tick", NoneId, NoneId, NoRaise, 0, {})
    /\ UNCHANGED <<active_sessions, temp_dirs, uploads, pdf_vars, ws_vars, scan_vars, cam_vars, hb_vars>>

----------------------------------------------------------------------------
(* POST /store-temp *)

FilesOf(dirs, sid) == dirs[sid].files

ImageCount(sid) ==
    IF InStore(sid) THEN Len(active_sessions[sid].images) ELSE 0

\* Lines 139-160: parse the metadata, reject a missing id, mkdir the session
\* directory, open <image_id>.jpg for writing, and suspend at "await
\* image.read()".
StoreTemporaryImageBegin(sid, iid) ==
    IF sid = NoneId \/ iid = NoneId
    THEN /\ deleted' = Forget
         /\ last' = Event("store_temp", sid, iid, BadRequest, 0, {})
         /\ UNCHANGED <<now, active_sessions, temp_dirs, uploads, pdf_vars, ws_vars, scan_vars, cam_vars, hb_vars>>
    ELSE /\ Cardinality(uploads) < MaxInflight
         /\ [sid |-> sid, iid |-> iid] \notin uploads
         /\ ImageCount(sid) + Cardinality({u \in uploads : u.sid = sid})
                < MaxImages
         /\ temp_dirs' = [temp_dirs EXCEPT
                            ![sid] = Dir(FilesOf(temp_dirs, sid) \cup {iid})]
         /\ uploads' = uploads \cup {[sid |-> sid, iid |-> iid]}
         /\ deleted' = Forget
         /\ last' = Event("store_temp_begin", sid, iid, NoRaise, 0, {})
         /\ UNCHANGED <<now, active_sessions, pdf_vars, ws_vars, scan_vars, cam_vars, hb_vars>>

\* Mutant: a new session is stamped with a default time, not with now.
CreateOrGetEpoch(sessions, sid, t) ==
    IF sessions[sid] = NoSession
    THEN [sessions EXCEPT ![sid] = NewSession(0)]
    ELSE sessions

\* Lines 166-172: "if session_id not in active_sessions: ..."
CreateOrGet(sessions, sid, t) ==
    IF sessions[sid] = NoSession
    THEN [sessions EXCEPT ![sid] = NewSession(t)]
    ELSE sessions

\* Mutant: the record is put at the front of the list.
PrependImage(sessions, sid, iid, t) ==
    [sessions EXCEPT ![sid].images = <<ImageRecord(iid, t)>> \o @]

\* Lines 174-179: images.append({...})
AppendImage(sessions, sid, iid, t) ==
    [sessions EXCEPT ![sid].images = Append(@, ImageRecord(iid, t))]

\* Lines 160-194: the upload resumes: the content is written, the session is
\* created if absent and the record appended; a failing read or write ends
\* in the handler's except clause.
StoreTemporaryImageFinish(u, io_ok) ==
    /\ u \in uploads
    /\ uploads' = uploads \ {u}
    /\ IF io_ok
       THEN /\ active_sessions' =
                 AppendImage(CreateOrGet(active_sessions, u.sid, now),
                             u.sid, u.iid, now)
            /\ last' = Event("store_temp", u.sid, u.iid, NoRaise, 0, {})
       ELSE /\ active_sessions' = active_sessions
            /\ last' = Event("store_temp", u.sid, u.iid, IOError, 0, {})
    /\ deleted' = Forget
    /\ UNCHANGED <<now, temp_dirs, pdf_vars, ws_vars, scan_vars, cam_vars, hb_vars>>

----------------------------------------------------------------------------
(* POST /process-image *)

\* Lines 210-215: the first record with the id, 0 when there is none.
RECURSIVE FindImage(_, _, _)
FindImage(images, iid, i) ==
    IF i > Len(images) THEN 0
    ELSE IF images[i].id = iid THEN i
    ELSE FindImage(images, iid, i + 1)

\* Lines 205-218: what the try block raises.
ProcessImageRaises(sessions, sid, iid) ==
    IF sessions[sid] = NoSession THEN NotFound
    ELSE IF FindImage(sessions[sid].images, iid, 1) = 0 THEN NotFound
    ELSE NoRaise

\* Lines 235-241: image_info.update({...})
UpdateImage(sessions, sid, iid, t) ==
    LET i == FindImage(sessions[sid].images, iid, 1)
    IN  [sessions EXCEPT ![sid].images[i].processed_at = t]

ProcessImage(sid, iid) ==
    LET raised == ProcessImageRaises(active_sessions, sid, iid)
    IN  /\ active_sessions' =
             IF raised = NoRaise THEN UpdateImage(active_sessions, sid, iid, now)
             ELSE active_sessions
        /\ deleted' = Forget
        /\ last' = Event("process_image", sid, iid, raised, 0, {})
        /\ UNCHANGED <<now, temp_dirs, uploads, pdf_vars, ws_vars, scan_vars, cam_vars, hb_vars>>

----------------------------------------------------------------------------
(* DELETE /cleanup-session/{session_id} *)

\* Lines 329-336, the store: "del active_sessions[session_id]"
SessionsAfterCleanup(sessions, sid) ==
    IF sessions[sid] # NoSession
    THEN [sessions EXCEPT ![sid] = NoSession]
    ELSE sessions

\* Mutant: the directory is removed whether or not the id is in the store.
DirsAfterCleanupUnguarded(sessions, dirs, sid) ==
    [dirs EXCEPT ![sid] = NoDir]

\* Lines 329-333, the disk: "if session_dir.exists(): shutil.rmtree(...)"
DirsAfterCleanup(sessions, dirs, sid) ==
    IF sessions[sid] # NoSession
    THEN [dirs EXCEPT ![sid] = NoDir]
    ELSE dirs

\* History: the sessions among ids that are in the store, with their ids.
Removed(sessions, ids) ==
    {<<s, sessions[s]>> : s \in {x \in ids : sessions[x] # NoSession}}

CleanupSession(sid) ==
    /\ active_sessions' = SessionsAfterCleanup(active_sessions, sid)
    /\ temp_dirs' = DirsAfterCleanup(active_sessions, temp_dirs, sid)
    /\ deleted' = IF InStore(sid) THEN Forget \cup {sid} ELSE Forget
    /\ last' = Event("cleanup_session", sid, NoneId, NoRaise, 0, {})
    /\ UNCHANGED <<now, uploads, pdf_vars, ws_vars, scan_vars, cam_vars, hb_vars>>

----------------------------------------------------------------------------
(* POST /cleanup-old-sessions *)

\* Mutant: a session expires on reaching the maximum age.
ExpiredInclusive(created, t) == t - created >= MAX_SESSION_AGE

\* Line 353: current_time - session_info['created'] > MAX_SESSION_AGE
Expired(created, t) == t - created > MAX_SESSION_AGE

\* The latest upload or per-image update recorded in a session.
RECURSIVE LastActivity(_, _)
LastActivity(images, i) ==
    IF i > Len(images) THEN Never
    ELSE LET rest == LastActivity(images, i + 1)
             mine == IF images[i].processed_at > images[i].stored_at
                     THEN images[i].processed_at ELSE images[i].stored_at
         IN  IF mine > rest THEN mine ELSE rest

\* Mutant: a session expires by the time since its last activity.
SessionsToRemoveIdle(sessions, t) ==
    {s \in SessionIds :
        /\ sessions[s] # NoSession
        /\ Expired(LastActivity(sessions[s].images, 1), t)}

\* Lines 350-354
SessionsToRemove(sessions, t) ==
    {s \in SessionIds : sessions[s] # NoSession /\ Expired(sessions[s].created, t)}

\* Lines 356-357: "for session_id in sessions_to_remove: await
\* cleanup_session(session_id)"; cleanup_session never suspends.
RECURSIVE CleanupAll(_, _)
CleanupAll(state, todo) ==
    IF todo = {} THEN state
    ELSE LET s == CHOOSE x \in todo : TRUE
         IN  CleanupAll(
                 [sessions |-> SessionsAfterCleanup(state.sessions, s),
                  dirs |-> DirsAfterCleanup(state.sessions, state.dirs, s)],
                 todo \ {s})

CleanupOldSessions ==
    LET todo == SessionsToRemove(active_sessions, now)
        after == CleanupAll([sessions |-> active_sessions, dirs |-> temp_dirs], todo)
    IN  /\ active_sessions' = after.sessions
        /\ temp_dirs' = after.dirs
        /\ last' = Event("cleanup_old_sessions", NoneId, NoneId, NoRaise,
                         Cardinality(todo), Removed(active_sessions, todo))
        /\ deleted' = Forget
        /\ UNCHANGED <<now, uploads, pdf_vars, ws_vars, scan_vars, cam_vars, hb_vars>>

----------------------------------------------------------------------------

(* backend/api/pdf_api.py: the files of storage/generated_pdfs *)

\* A file name is the sequence of its parts: a stem, then its suffixes.
\* The names clients save PDFs under.
PdfNames ==
    { <<"a", ".pdf">>, <<"b", ".pdf">>, <<"c", ".pdf">>, <<"d", ".pdf">>,
      <<"a", ".pdf", ".pdf">>, <<"a", ".json", ".pdf">> }

\* scan_duration of save-generated: not sent, a float, not a float.
NoDuration == "None"
FloatDuration == "12.5"
BadDuration == "abc"

\* The (filename, scan_duration) pairs clients send.
SaveInputs ==
    ({<<"a", ".pdf">>, <<"b", ".pdf">>, <<"c", ".pdf">>, <<"d", ".pdf">>}
         \X {NoDuration})
        \cup ({<<"a", ".pdf">>, <<"a", ".pdf", ".pdf">>, <<"a", ".json", ".pdf">>}
                 \X {FloatDuration})
        \cup {<< <<"b", ".pdf">>, BadDuration >>}

\* len(content) of the PDFs clients upload.
PdfContents == {1, 2}

\* limit of /recent: its default, none, and MaxLimit.
DEFAULT_LIMIT == 5
Limits == {0, MaxLimit, DEFAULT_LIMIT}

\* keep_count of the sweep that save-generated runs.
SAVE_KEEP_COUNT == 5

Range(seq) == {seq[i] : i \in 1..Len(seq)}

\* Path.glob("*.pdf")
IsPdf(name) == name[Len(name)] = ".pdf"

\* Path.with_suffix('.json'): the last suffix is replaced.
WithSuffixJson(name) == SubSeq(name, 1, Len(name) - 1) \o <<".json">>

\* str.replace('.pdf', '.json'): every occurrence is replaced.
ReplacePdfJson(name) ==
    [i \in 1..Len(name) |-> IF name[i] = ".pdf" THEN ".json" ELSE name[i]]

\* stat().st_mtime (recent) and stat().st_ctime (save-generated) of a file:
\* both are set when the file is written, so a file's place in pdf_files,
\* oldest first, stands for either.
StatTime(files, name) == CHOOSE i \in 1..Len(files) : files[i] = name

\* The pdf_files list both handlers build from glob("*.pdf").
Listing(files) ==
    {[filename |-> n, created_at |-> StatTime(files, n)] :
        n \in {x \in Range(files) : IsPdf(x)}}

\* Mutant: the list is sorted without reverse=True.
RECURSIVE SortOldestFirst(_)
SortOldestFirst(listing) ==
    IF listing = {} THEN <<>>
    ELSE LET first == CHOOSE x \in listing :
                          \A y \in listing : x.created_at <= y.created_at
         IN  <<first>> \o SortOldestFirst(listing \ {first})

\* pdf_files.sort(key=lambda x: x["created_at"], reverse=True)
RECURSIVE SortNewestFirst(_)
SortNewestFirst(listing) ==
    IF listing = {} THEN <<>>
    ELSE LET first == CHOOSE x \in listing :
                          \A y \in listing : x.created_at >= y.created_at
         IN  <<first>> \o SortNewestFirst(listing \ {first})

\* open(file_path, 'wb') and write: a new file, or an old one written anew.
WriteFile(files, name) ==
    SelectSeq(files, LAMBDA x : x # name) \o <<name>>

\* Path.unlink()
Unlink(files, name) == SelectSeq(files, LAMBDA x : x # name)

\* Mutant: the first failing deletion ends the sweep.
RECURSIVE DeleteEachAbort(_, _, _, _)
DeleteEachAbort(dir, files_to_delete, i, fails) ==
    IF i > Len(files_to_delete) THEN dir
    ELSE LET filename == files_to_delete[i].filename
             pdf_exists == filename \in Range(dir.pdfs)
             metadata_path == ReplacePdfJson(filename)
         IN  IF pdf_exists /\ filename \in fails
             THEN dir
             ELSE LET unlinked ==
                          IF pdf_exists
                          THEN [dir EXCEPT !.pdfs = Unlink(@, filename),
                                           !.count = @ + 1]
                          ELSE dir
                  IN  IF metadata_path \in unlinked.sidecars /\ metadata_path \in fails
                      THEN unlinked
                      ELSE DeleteEachAbort(
                               [unlinked EXCEPT !.sidecars = @ \ {metadata_path}],
                               files_to_delete, i + 1, fails)

\* Lines 385-404: "for file_info in files_to_delete:"; an unlink of a name
\* in fails raises, which ends that file's turn ("except ...: continue").
RECURSIVE DeleteEach(_, _, _, _)
DeleteEach(dir, files_to_delete, i, fails) ==
    IF i > Len(files_to_delete) THEN dir
    ELSE LET filename == files_to_delete[i].filename
             pdf_exists == filename \in Range(dir.pdfs)
             metadata_path == ReplacePdfJson(filename)
         IN  IF pdf_exists /\ filename \in fails
             THEN DeleteEach(dir, files_to_delete, i + 1, fails)
             ELSE LET unlinked ==
                          IF pdf_exists
                          THEN [dir EXCEPT !.pdfs = Unlink(@, filename),
                                           !.count = @ + 1]
                          ELSE dir
                  IN  IF metadata_path \in unlinked.sidecars /\ metadata_path \in fails
                      THEN DeleteEach(unlinked, files_to_delete, i + 1, fails)
                      ELSE DeleteEach(
                               [unlinked EXCEPT !.sidecars = @ \ {metadata_path}],
                               files_to_delete, i + 1, fails)

\* pdf_files[keep_count:], for keep_count >= 0
FilesToDelete(pdf_list, keep_count) ==
    SubSeq(pdf_list, keep_count + 1, Len(pdf_list))

\* cleanup_old_pdfs(pdf_dir, pdf_files, keep_count): the directory after the
\* sweep, and the cleanup_count returned.
CleanupOldPdfs(files, metadata, pdf_list, keep_count, fails) ==
    LET dir == [pdfs |-> files, sidecars |-> metadata, count |-> 0]
    IN  IF Len(pdf_list) <= keep_count THEN dir
        ELSE DeleteEach(dir, FilesToDelete(pdf_list, keep_count), 1, fails)

\* The subsets of S with at most k elements.
RECURSIVE SubsetsUpTo(_, _)
SubsetsUpTo(S, k) ==
    IF k = 0 THEN {{}}
    ELSE LET smaller == SubsetsUpTo(S, k - 1)
         IN  smaller \cup {f \cup {x} : f \in smaller, x \in S}

\* The unlink calls that may raise in a sweep: at most MaxFailures of the
\* files the sweep is to delete and of their metadata files.
FailureChoices(files, metadata, pdf_list, keep_count) ==
    LET doomed == {x.filename : x \in Range(FilesToDelete(pdf_list, keep_count))}
        calls == doomed \cup ({ReplacePdfJson(n) : n \in doomed} \cap metadata)
    IN  SubsetsUpTo(calls, MaxFailures)

\* The handler that ran, the filename and keep_count it worked with, the
\* unlink calls that raised and the cleanup_count it reported.
PdfEvent(op, filename, keep_count, fails, count) ==
    [op |-> op, filename |-> filename, keep |-> keep_count, fails |-> fails,
     count |-> count, status |-> OK]

\* What the files that are left hold.
Stored(contents, files, metadata) ==
    [n \in Range(files) \cup metadata |-> contents[n]]

\* Lines 115-120: the metadata written for a PDF of len(content) bytes;
\* scan_duration and created_at are left out.
Metadata(filename, content) == [filename |-> filename, file_size |-> content]

\* Lines 106-122: the contents of the directory once the PDF, and its
\* metadata when scan_duration is a float, are written.  A PDF's content
\* stands for its length.
ContentsAfterSave(contents, filename, scan_duration, content) ==
    LET pdf_written ==
            [n \in DOMAIN contents \cup {filename} |->
                IF n = filename THEN content ELSE contents[n]]
    IN  IF scan_duration = FloatDuration
        THEN [n \in DOMAIN pdf_written \cup {WithSuffixJson(filename)} |->
                 IF n = WithSuffixJson(filename) THEN Metadata(filename, content)
                 ELSE pdf_written[n]]
        ELSE pdf_written

\* POST /save-generated: lines 104-108 write the file, 110-125 the metadata
\* sidecar when scan_duration is a float, 127-155 sweep with keep_count 5.
SaveGeneratedPdf(filename, scan_duration, content) ==
    LET written == WriteFile(pdf_files, filename)
        metadata == IF scan_duration = FloatDuration
                    THEN sidecars \cup {WithSuffixJson(filename)}
                    ELSE sidecars
        pdf_list == SortNewestFirst(Listing(written))
    IN  \E fails \in FailureChoices(written, metadata, pdf_list, SAVE_KEEP_COUNT) :
            LET after == CleanupOldPdfs(written, metadata, pdf_list,
                                        SAVE_KEEP_COUNT, fails)
            IN  /\ pdf_files' = after.pdfs
                /\ sidecars' = after.sidecars
                /\ file_contents' =
                       Stored(ContentsAfterSave(file_contents, filename,
                                                scan_duration, content),
                              after.pdfs, after.sidecars)
                /\ last' = PdfEvent("save_generated", filename, SAVE_KEEP_COUNT,
                                    fails, after.count)
                /\ UNCHANGED <<session_vars, ws_vars, scan_vars, cam_vars, hb_vars>>

\* GET /recent: lines 297-360 list, sort and sweep with keep_count limit.
GetRecentPdfs(limit) ==
    LET pdf_list == SortNewestFirst(Listing(pdf_files))
    IN  \E fails \in FailureChoices(pdf_files, sidecars, pdf_list, limit) :
            LET after == CleanupOldPdfs(pdf_files, sidecars, pdf_list, limit, fails)
            IN  /\ pdf_files' = after.pdfs
                /\ sidecars' = after.sidecars
                /\ file_contents' = Stored(file_contents, after.pdfs, after.sidecars)
                /\ last' = PdfEvent("recent", <<>>, limit, fails, after.count)
                /\ UNCHANGED <<session_vars, ws_vars, scan_vars, cam_vars, hb_vars>>

\* The retention sweeps, over PDFs that are all one byte long.
NextPdf ==
    \/ \E in \in SaveInputs : SaveGeneratedPdf(in[1], in[2], 1)
    \/ \E limit \in Limits : GetRecentPdfs(limit)

SpecPdf == Init /\ [][NextPdf]_vars

(* Saving again under a name in use, with PDFs of different lengths *)

NextSidecar ==
    \/ \E filename \in {<<"a", ".pdf">>, <<"b", ".pdf">>},
          scan_duration \in {NoDuration, FloatDuration, BadDuration},
          content \in PdfContents :
           SaveGeneratedPdf(filename, scan_duration, content)
    \/ \E limit \in {0, 1} : GetRecentPdfs(limit)

SpecSidecar == Init /\ [][NextSidecar]_vars

----------------------------------------------------------------------------
(* backend/api/image_storage.py: ImageProcessor *)

MaxDim == 3
MaxMargin == 2

Max(a, b) == IF a >= b THEN a ELSE b
Min(a, b) == IF a <= b THEN a ELSE b

\* A path is the sequence of its parts: the session directory, the image
\* id, then what follows; str(session_dir / f"{image_id}.jpg").
JpgPath(sid, iid) == <<sid, iid, ".jpg">>

\* image_path.replace('.jpg', suffix + '.jpg'): every occurrence is replaced.
RECURSIVE ReplaceJpg(_, _)
ReplaceJpg(path, suffix) ==
    IF path = <<>> THEN <<>>
    ELSE IF Head(path) = ".jpg"
         THEN <<suffix, ".jpg">> \o ReplaceJpg(Tail(path), suffix)
         ELSE <<Head(path)>> \o ReplaceJpg(Tail(path), suffix)

\* What cv2.imread finds at a path: an image of width x height, or nothing
\* it can decode (None).
Unreadable == [readable |-> FALSE, width |-> 0, height |-> 0]
Picture(w, h) == [readable |-> TRUE, width |-> w, height |-> h]
TrimImages == {Unreadable} \cup {Picture(w, h) : w, h \in 1..MaxDim}

\* trim_settings: a dict with some of the keys top, bottom, left, right.
TrimKeys == {"top", "bottom", "left", "right"}
TrimSettings ==
    [TrimKeys -> (-1)..MaxMargin]
        \cup [{"top"} -> 1..MaxMargin] \cup [{"left", "right"} -> 1..MaxMargin]
        \cup {[k \in {} |-> 0]}

\* The paths apply_trim is called with; the second is that of an image
\* whose id is "a.jpg".
TrimPaths == {JpgPath("s1", "a"), <<"s1", "a", ".jpg", ".jpg">>}

\* dict.get(key, default)
Get(dict, key, default) == IF key \in DOMAIN dict THEN dict[key] ELSE default

\* Mutant: a margin is used as given, negative or not.
TrimMarginRaw(trim_settings, key) == Get(trim_settings, key, 0)

\* Lines 52-55: max(0, trim_settings.get(key, 0))
TrimMargin(trim_settings, key) == Max(0, Get(trim_settings, key, 0))

\* The number of indices of img[lo:hi] along an axis of n: a negative bound
\* counts from the end, and both are clipped to 0..n.
SliceIndex(i, n) == IF i < 0 THEN Max(0, n + i) ELSE Min(i, n)
SliceLen(lo, hi, n) == Max(0, SliceIndex(hi, n) - SliceIndex(lo, n))

\* A file cv2.imwrite writes.
WrittenImage(path, w, h) == [path |-> path, width |-> w, height |-> h]

\* ImageProcessor.apply_trim(image_path, trim_settings): the path returned
\* and the files written.
ApplyTrim(img, image_path, trim_settings) ==
    IF ~img.readable
    THEN [path |-> image_path, written |-> {}]
    ELSE LET y1 == TrimMargin(trim_settings, "top")
             y2 == img.height - TrimMargin(trim_settings, "bottom")
             x1 == TrimMargin(trim_settings, "left")
             x2 == img.width - TrimMargin(trim_settings, "right")
             processed_path == ReplaceJpg(image_path, "_trimmed")
         IN  IF y2 <= y1 \/ x2 <= x1
             THEN [path |-> image_path, written |-> {}]
             ELSE [path |-> processed_path,
                   written |-> {WrittenImage(processed_path,
                                             SliceLen(x1, x2, img.width),
                                             SliceLen(y1, y2, img.height))}]

\* A call of apply_trim, and what it returned.
ApplyTrimCall(img, image_path, trim_settings) ==
    LET result == ApplyTrim(img, image_path, trim_settings)
    IN  /\ last' = [op |-> "apply_trim", img |-> img, image_path |-> image_path,
                     trim_settings |-> trim_settings, result |-> result.path,
                     written |-> result.written]
        /\ UNCHANGED <<session_vars, pdf_vars, ws_vars, scan_vars, cam_vars, hb_vars>>

\* apply_trim reads no state of the module: one call per behaviour.
NextTrim ==
    /\ last.op = "init"
    /\ \E img \in TrimImages, image_path \in TrimPaths,
          trim_settings \in TrimSettings :
           ApplyTrimCall(img, image_path, trim_settings)

SpecTrim == Init /\ [][NextTrim]_vars

----------------------------------------------------------------------------
(* POST /process-image, with its processing stages *)

Stages == {"trim", "enhance", "thumbnail"}

\* What a stage did: whether it ran, the path it was given, the path it
\* returned, whether it failed (its library calls raised, or it could not
\* read its input) and the files it wrote.
StageSkipped(path) ==
    [ran |-> FALSE, input |-> path, output |-> path, failed |-> FALSE,
     written |-> {}]
StageFailed(path) ==
    [ran |-> TRUE, input |-> path, output |-> path, failed |-> TRUE,
     written |-> {}]
StageDone(path, output, written) ==
    [ran |-> TRUE, input |-> path, output |-> output, failed |-> FALSE,
     written |-> written]

\* apply_trim as a stage: "except Exception as e: ... return image_path"
\* when a library call raises.  A skipped trim (invalid boundaries) is no
\* failure.
TrimStage(img, path, trim_settings, raises) ==
    IF raises \/ ~img.readable THEN StageFailed(path)
    ELSE LET result == ApplyTrim(img, path, trim_settings)
         IN  StageDone(path, result.path, result.written)

\* The image a later stage reads at the path the trim returned.
TrimmedImage(img, stage) ==
    IF stage.written = {} THEN img
    ELSE LET w == CHOOSE x \in stage.written : TRUE
         IN  Picture(w.width, w.height)

\* ImageProcessor.enhance_image (lines 82-109)
EnhanceStage(img, path, raises) ==
    IF raises \/ ~img.readable THEN StageFailed(path)
    ELSE LET enhanced_path == ReplaceJpg(path, "_enhanced")
         IN  StageDone(path, enhanced_path,
                       {WrittenImage(enhanced_path, img.width, img.height)})

\* The size Image.thumbnail gives within max_width x max_height: the model's
\* images are smaller than 150 x 190 and keep their size.
ThumbnailStage(img, path, raises) ==
    IF raises \/ ~img.readable THEN StageFailed(path)
    ELSE LET thumbnail_path == ReplaceJpg(path, "_thumb")
         IN  StageDone(path, thumbnail_path,
                       {WrittenImage(thumbnail_path, img.width, img.height)})

\* Lines 220-232: the stages in turn, each given the path the one before
\* returned; trim runs "if trim_settings", enhancement "if enhance".
RunStages(img, original_path, trim_settings, enhance, fails) ==
    LET trim == IF DOMAIN trim_settings # {}
                THEN TrimStage(img, original_path, trim_settings, "trim" \in fails)
                ELSE StageSkipped(original_path)
        trimmed == TrimmedImage(img, trim)
        enhanced == IF enhance
                    THEN EnhanceStage(trimmed, trim.output, "enhance" \in fails)
                    ELSE StageSkipped(trim.output)
        thumb == ThumbnailStage(trimmed, enhanced.output, "thumbnail" \in fails)
    IN  [trim |-> trim, enhance |-> enhanced, thumbnail |-> thumb]

\* Mutant: a failing stage raises into process_image's try block.
ProcessStagesRaisePropagating(sessions, sid, iid, stages) ==
    IF ProcessImageRaises(sessions, sid, iid) # NoRaise
    THEN ProcessImageRaises(sessions, sid, iid)
    ELSE IF \E st \in Stages : stages[st].failed THEN IOError ELSE NoRaise

\* What process_image's try block raises: the stages catch their own
\* exceptions, so only the two look-ups raise.
ProcessStagesRaise(sessions, sid, iid, stages) ==
    ProcessImageRaises(sessions, sid, iid)

\* Lines 235-241: image_info.update({...}) adds the keys to the record.
UpdateImageInfo(sessions, sid, iid, t, stages, trim_settings, enhance) ==
    LET i == FindImage(sessions[sid].images, iid, 1)
        r == sessions[sid].images[i]
    IN  [sessions EXCEPT ![sid].images[i] =
            [id |-> r.id, stored_at |-> r.stored_at, processed_at |-> t,
             processed_path |-> stages["enhance"].output,
             thumbnail_path |-> stages["thumbnail"].output,
             trim_applied |-> DOMAIN trim_settings # {},
             enhanced |-> enhance]]

\* The bodies of process-image requests: no trim_settings, an empty dict,
\* a trim of one row, a trim of more than the image.
ProcessTrimSettings ==
    {[k \in {} |-> 0], [k \in {"top"} |-> 1], [k \in TrimKeys |-> MaxDim]}

\* The content of an uploaded file, as cv2 and PIL find it.
UploadedImages == {Unreadable, Picture(2, 2)}

\* process_image(session_id, image_id, trim_settings, enhance) on a file
\* with content img, the library calls of the stages in fails raising.
ProcessImageWith(sid, iid, img, trim_settings, enhance, fails) ==
    LET original_path == JpgPath(sid, iid)
        stages == RunStages(img, original_path, trim_settings, enhance, fails)
        raised == ProcessStagesRaise(active_sessions, sid, iid, stages)
    IN  /\ active_sessions' =
             IF raised = NoRaise
             THEN UpdateImageInfo(active_sessions, sid, iid, now, stages,
                                  trim_settings, enhance)
             ELSE active_sessions
        /\ deleted' = Forget
        /\ last' = [op |-> "process_image", sid |-> sid, iid |-> iid,
                     raised |-> raised, status |-> ExceptException(raised),
                     original_path |-> original_path,
                     processed_path |-> stages["enhance"].output,
                     thumbnail_path |-> stages["thumbnail"].output,
                     stages |-> stages]
        /\ UNCHANGED <<now, temp_dirs, uploads, pdf_vars, ws_vars, scan_vars, cam_vars, hb_vars>>

NextProcess ==
    \/ \E iid \in ImageIds : StoreTemporaryImageBegin("s1", iid)
    \/ \E u \in uploads : StoreTemporaryImageFinish(u, TRUE)
    \/ \E iid \in ImageIds, img \in UploadedImages,
          trim_settings \in ProcessTrimSettings, enhance \in BOOLEAN,
          fails \in SUBSET Stages :
           ProcessImageWith("s1", iid, img, trim_settings, enhance, fails)

SpecProcess == Init /\ [][NextProcess]_vars

----------------------------------------------------------------------------
(* GET /session-info/{session_id} *)

\* 'processed_path' in img: process_image has updated the record.
Processed(img) == "processed_path" \in DOMAIN img \/ img.processed_at # Never

\* Lines 311-319: the list comprehension over session['images'].
ImageInfos(images) ==
    [i \in 1..Len(images) |->
        [id |-> images[i].id, processed |-> Processed(images[i]),
         has_thumbnail |-> Processed(images[i])]]

\* Lines 301-302: what the try block raises.
SessionInfoRaises(sessions, sid) ==
    IF sessions[sid] = NoSession THEN NotFound ELSE NoRaise

GetSessionInfo(sid) ==
    LET raised == SessionInfoRaises(active_sessions, sid)
    IN  /\ last' =
             IF raised = NoRaise
             THEN [op |-> "session_info", sid |-> sid, raised |-> raised,
                   status |-> ExceptException(raised),
                   created |-> active_sessions[sid].created,
                   pdf_name |-> active_sessions[sid].pdf_name,
                   image_count |-> Len(active_sessions[sid].images),
                   images |-> ImageInfos(active_sessions[sid].images)]
             ELSE [op |-> "session_info", sid |-> sid, raised |-> raised,
                   status |-> ExceptException(raised)]
        /\ deleted' = Forget
        /\ UNCHANGED <<now, active_sessions, temp_dirs, uploads, pdf_vars, ws_vars, scan_vars, cam_vars, hb_vars>>

(* Uploads to one session as the clock advances, and its session-info *)

NextInfo ==
    \/ Tick
    \/ \E iid \in ImageIds : StoreTemporaryImageBegin("s1", iid)
    \/ \E u \in uploads, io_ok \in BOOLEAN : StoreTemporaryImageFinish(u, io_ok)
    \/ CleanupSession("s1")
    \/ \E sid \in SessionIds : GetSessionInfo(sid)

SpecInfo == Init /\ [][NextInfo]_vars

----------------------------------------------------------------------------
(* backend/api/websocket_handler.py *)

MaxFrames == 2

\* What a client sends: text that is no JSON, or a JSON object with a type.
NotJson == "not_json"
CameraMessages ==
    {"start_stream", "stop_stream", "capture_frame", "ping", "unknown", NotJson}
ScannerMessages ==
    {"subscribe_updates", "spread_captured", "session_started", "unknown", NotJson}
MessagesOf(c) ==
    IF Endpoint(c) = CameraStream THEN CameraMessages ELSE ScannerMessages

\* The handler of c is between manager.connect and its end.
Running(c) == handlers[c].pc \in {"receiving", "streaming", "broadcasting"}

\* list.remove(x): the first occurrence is removed.
RECURSIVE RemoveFirst(_, _)
RemoveFirst(list, x) ==
    IF list = <<>> THEN <<>>
    ELSE IF Head(list) = x THEN Tail(list)
    ELSE <<Head(list)>> \o RemoveFirst(Tail(list), x)

\* What happened on a connection: the operation, and what it sent.
WsEvent(op, c, message, sent) ==
    [op |-> op, conn |-> c, message |-> message, sent |-> sent]

\* Lines 19-21 and 42 / 80: accept, append, enter the receive loop.
Connect(c) ==
    /\ handlers[c].pc = "idle"
    /\ ws_open' = [ws_open EXCEPT ![c] = TRUE]
    /\ active_connections' = Append(active_connections, c)
    /\ handlers' = [handlers EXCEPT ![c].pc = "receiving"]
    /\ last' = WsEvent("connect", c, "none", "none")
    /\ UNCHANGED <<session_vars, pdf_vars, hb_vars, scan_vars, cam_vars>>

\* The client closes its WebSocket, or the network drops it.
ClientClose(c) ==
    /\ ws_open[c]
    /\ ws_open' = [ws_open EXCEPT ![c] = FALSE]
    /\ last' = WsEvent("client_close", c, "none", "none")
    /\ UNCHANGED <<session_vars, pdf_vars, hb_vars, scan_vars, cam_vars, active_connections, handlers>>

\* Lines 73-74 / 111-112: receive_text raises WebSocketDisconnect and the
\* handler calls manager.disconnect; list.remove raises ValueError when the
\* connection is not in the list, which ends the handler with that error.
HandlerDisconnect(c) ==
    /\ handlers[c].pc = "receiving"
    /\ ~ws_open[c]
    /\ IF \E i \in 1..Len(active_connections) : active_connections[i] = c
       THEN /\ active_connections' = RemoveFirst(active_connections, c)
            /\ handlers' = [handlers EXCEPT ![c].pc = "ended"]
       ELSE /\ active_connections' = active_connections
            /\ handlers' = [handlers EXCEPT ![c].pc = "crashed",
                                             ![c].error = "ValueError"]
    /\ last' = WsEvent("disconnect", c, "none", "none")
    /\ UNCHANGED <<session_vars, pdf_vars, hb_vars, scan_vars, cam_vars, ws_open>>

\* The reply of the receive loop to a message type, "none" when it sends
\* nothing.
ReplyTo(message) ==
    CASE message = "stop_stream" -> "stream_stopped"
      [] message = "capture_frame" -> "frame_captured"
      [] message = "ping" -> "pong"
      [] message = "subscribe_updates" -> "subscription_confirmed"
      [] message = "start_stream" -> "stream_started"
      [] OTHER -> "none"

\* Mutant: the frames are sent by a task of their own and the handler goes
\* back to its receive loop.
AfterMessageDetached(c, message) == "receiving"

\* Where the handler stands once it has taken a message: handle_start_stream
\* awaits send_mock_frames (line 129), the two broadcasting types await
\* manager.broadcast (lines 97, 105), all others go round the loop.
AfterMessage(c, message) ==
    IF Endpoint(c) = CameraStream /\ message = "start_stream" THEN "streaming"
    ELSE IF Endpoint(c) = ScannerUpdates
            /\ message \in {"spread_captured", "session_started"}
         THEN "broadcasting"
         ELSE "receiving"

\* Lines 46-71 / 83-109: one round of the receive loop on an open
\* connection.  json.loads raises on text that is no JSON; the handler
\* catches WebSocketDisconnect only, so it ends with that error, without
\* manager.disconnect, and the server closes the connection.
Receive(c, message) ==
    /\ handlers[c].pc = "receiving"
    /\ ws_open[c]
    /\ IF message = NotJson
       THEN /\ handlers' = [handlers EXCEPT ![c].pc = "crashed",
                                             ![c].error = "JSONDecodeError"]
            /\ ws_open' = [ws_open EXCEPT ![c] = FALSE]
            /\ last' = WsEvent("message", c, message, "none")
       ELSE /\ handlers' = [handlers EXCEPT
                               ![c].pc = AfterMessage(c, message),
                               ![c].frame_count = 0,
                               ![c].index = 0,
                               ![c].snapshot =
                                   IF AfterMessage(c, message) = "broadcasting"
                                   THEN active_connections ELSE <<>>,
                               ![c].attempted = {}]
            /\ ws_open' = ws_open
            /\ last' = WsEvent("message", c, message, ReplyTo(message))
    /\ UNCHANGED <<session_vars, pdf_vars, hb_vars, scan_vars, cam_vars, active_connections>>

\* Lines 185-198: one round of send_mock_frames on an open connection.
SendFrame(c) ==
    /\ handlers[c].pc = "streaming"
    /\ ws_open[c]
    /\ handlers[c].frame_count < MaxFrames
    /\ handlers' = [handlers EXCEPT ![c].frame_count = @ + 1]
    /\ last' = WsEvent("frame", c, "none", handlers[c].frame_count)
    /\ UNCHANGED <<session_vars, pdf_vars, hb_vars, scan_vars, cam_vars, active_connections, ws_open>>

\* Lines 194 and 200-203: send_text raises on a closed connection, which
\* send_mock_frames catches; handle_start_stream returns to the receive loop.
StreamLost(c) ==
    /\ handlers[c].pc = "streaming"
    /\ ~ws_open[c]
    /\ handlers' = [handlers EXCEPT ![c].pc = "receiving", ![c].frame_count = 0]
    /\ last' = WsEvent("stream_lost", c, "none", "none")
    /\ UNCHANGED <<session_vars, pdf_vars, hb_vars, scan_vars, cam_vars, active_connections, ws_open>>

\* Line 30: "for connection in self.active_connections": the list iterator
\* yields the element at its position in the list as it is now, and stops
\* when the position is past the end.
BroadcastNext(list, h) ==
    IF h.index < Len(list) THEN list[h.index + 1] ELSE "none"

\* Lines 30-35: one round of broadcast's loop in the handler of c: the send
\* to the next connection, and its removal when the send raises; or the end
\* of the loop.
BroadcastStep(c) ==
    /\ handlers[c].pc = "broadcasting"
    /\ LET connection == BroadcastNext(active_connections, handlers[c])
       IN  IF connection = "none"
           THEN /\ handlers' = [handlers EXCEPT ![c] = [IdleHandler EXCEPT
                                                          !.pc = "receiving"]]
                /\ active_connections' = active_connections
                /\ last' = WsEvent("broadcast_done", c, "none", "none")
           ELSE /\ handlers' = [handlers EXCEPT
                                   ![c].index = @ + 1,
                                   ![c].attempted = @ \cup {connection}]
                /\ active_connections' =
                       IF ws_open[connection] THEN active_connections
                       ELSE RemoveFirst(active_connections, connection)
                /\ last' = WsEvent("broadcast_send", c, connection,
                                   IF ws_open[connection] THEN "sent" ELSE "failed")
    /\ UNCHANGED <<session_vars, pdf_vars, hb_vars, scan_vars, cam_vars, ws_open>>

NextWs ==
    \/ \E c \in Conns : Connect(c)
    \/ \E c \in Conns : ClientClose(c)
    \/ \E c \in Conns : HandlerDisconnect(c)
    \/ \E c \in Conns : \E message \in MessagesOf(c) : Receive(c, message)
    \/ \E c \in Conns : SendFrame(c)
    \/ \E c \in Conns : StreamLost(c)
    \/ \E c \in Conns : BroadcastStep(c)

\* send_mock_frames is resumed after each asyncio.sleep(0.1).
SpecWs ==
    Init /\ [][NextWs]_vars
         /\ \A c \in Conns : WF_vars(SendFrame(c)) /\ WF_vars(StreamLost(c))

----------------------------------------------------------------------------
(* main.py: the heartbeat monitor and the shutdown endpoint.  The clock
   counts seconds; a sleeping task runs in the second it wakes at, before
   the clock moves on. *)

MaxClock == 14
MaxShutdownRequests == 1

EndedTask == [state |-> "ended", wake_at |-> 0]

HbEvent(op, cancelled) == [op |-> op, at |-> clock, cancelled |-> cancelled]

\* The wake-up times of the tasks that sleep.
WakeTimes ==
    {t.wake_at : t \in {t \in {monitor, shutdown_task} : t.state = "sleeping"}}
        \cup kill_tasks

\* One second passes; no task is left sleeping past its wake-up time.
ClockTick ==
    /\ server = "up"
    /\ clock < MaxClock
    /\ \A t \in WakeTimes : clock < t
    /\ clock' = clock + 1
    /\ last' = HbEvent("tick", FALSE)
    /\ UNCHANGED <<session_vars, pdf_vars, ws_vars, scan_vars, cam_vars, last_heartbeat, monitor,
                   shutdown_task, kill_tasks, server>>

\* Mutant: heartbeat leaves the pending shutdown alone.
KeepPending(task) == task

\* Lines 86-88 of heartbeat: a task that is not done is cancelled and
\* shutdown_task becomes None.
CancelPending(task) ==
    IF task.state = "sleeping" THEN NoTask ELSE task

\* POST /api/heartbeat.
Heartbeat ==
    /\ server = "up"
    /\ last_heartbeat' = clock
    /\ shutdown_task' = CancelPending(shutdown_task)
    /\ last' = HbEvent("heartbeat", shutdown_task.state = "sleeping")
    /\ UNCHANGED <<session_vars, pdf_vars, ws_vars, scan_vars, cam_vars, clock, monitor, kill_tasks,
                   server>>

\* One round of check_heartbeat's loop, after its sleep: past the timeout
\* it creates the delayed shutdown and leaves the loop.
CheckHeartbeat ==
    /\ server = "up"
    /\ monitor.state = "sleeping"
    /\ monitor.wake_at <= clock
    /\ IF clock - last_heartbeat > heartbeat_timeout
       THEN /\ shutdown_task' = Sleeping(clock + SHUTDOWN_DELAY)
            /\ monitor' = EndedTask
            /\ last' = HbEvent("check_heartbeat_timeout", FALSE)
       ELSE /\ monitor' = Sleeping(clock + CHECK_INTERVAL)
            /\ last' = HbEvent("check_heartbeat", FALSE)
            /\ UNCHANGED shutdown_task
    /\ UNCHANGED <<session_vars, pdf_vars, ws_vars, scan_vars, cam_vars, clock, last_heartbeat,
                   kill_tasks, server>>

\* delayed_shutdown of check_heartbeat, after its sleep: SIGTERM.
DelayedShutdown ==
    /\ server = "up"
    /\ shutdown_task.state = "sleeping"
    /\ shutdown_task.wake_at <= clock
    /\ server' = "down"
    /\ shutdown_task' = EndedTask
    /\ last' = HbEvent("delayed_shutdown", FALSE)
    /\ UNCHANGED <<session_vars, pdf_vars, ws_vars, scan_vars, cam_vars, clock, last_heartbeat,
                   monitor, kill_tasks>>

\* POST /api/shutdown: a delayed shutdown of its own, kept in no variable.
ShutdownServer ==
    /\ server = "up"
    /\ Cardinality(kill_tasks) < MaxShutdownRequests
    /\ kill_tasks' = kill_tasks \cup {clock + SHUTDOWN_DELAY}
    /\ last' = HbEvent("shutdown_server", FALSE)
    /\ UNCHANGED <<session_vars, pdf_vars, ws_vars, scan_vars, cam_vars, clock, last_heartbeat,
                   monitor, shutdown_task, server>>

\* delayed_shutdown of shutdown_server, after its sleep: SIGTERM.
RequestedShutdown ==
    /\ server = "up"
    /\ \E t \in kill_tasks :
           /\ t <= clock
           /\ kill_tasks' = kill_tasks \ {t}
    /\ server' = "down"
    /\ last' = HbEvent("requested_shutdown", FALSE)
    /\ UNCHANGED <<session_vars, pdf_vars, ws_vars, scan_vars, cam_vars, clock, last_heartbeat,
                   monitor, shutdown_task>>

NextHeartbeat ==
    \/ ClockTick
    \/ Heartbeat
    \/ CheckHeartbeat
    \/ DelayedShutdown
    \/ ShutdownServer
    \/ RequestedShutdown

\* Time passes and the event loop runs the tasks that are due.
SpecHeartbeat ==
    Init /\ [][NextHeartbeat]_vars
         /\ WF_vars(ClockTick) /\ WF_vars(CheckHeartbeat)
         /\ WF_vars(DelayedShutdown) /\ WF_vars(RequestedShutdown)

----------------------------------------------------------------------------
(* scanner.py: the scanning sessions.  No handler awaits, so each runs as
   one step.  right_page and the two image paths of a spread are read and
   written exactly as left_page is and are left out; so are the timestamps. *)

MaxScanTime == 3
MaxSpreads == 2
TicksPerSecond == 3

\* Line 20: strftime('%Y%m%d_%H%M%S') drops everything below the second.
SessionIdAt(t) == <<"session", t \div TicksPerSecond>>
ScanIds == {SessionIdAt(t) : t \in 0..MaxScanTime}

\* The request bodies: a dict with or without the keys the handler reads.
CaptureData == {[k \in {"left_page", "page_numbers"} |->
                    IF k = "left_page" THEN "l1" ELSE <<1, 2>>]}
RetakeData == {[k \in {"left_page"} |-> "l2"], EmptyDict}
\* The path parameter spread_index: any int.
RetakeIndexes == (0 - MaxSpreads - 1)..MaxSpreads

ScanEvent(op, sid, index, status) ==
    [op |-> op, sid |-> sid, index |-> index, status |-> status]

\* dict[key] = value, for a new key or an old one.
Put(dict, key, value) ==
    [k \in DOMAIN dict \cup {key} |-> IF k = key THEN value ELSE dict[k]]
\* del dict[key]
Del(dict, key) == [k \in DOMAIN dict \ {key} |-> dict[k]]

\* Lines 58, 70, 105, 137, 155: "not current_session or current_session not
\* in scanning_sessions".
NoActiveSession ==
    current_session = NoCurrent \/ current_session \notin DOMAIN scanning_sessions

\* A third of a second passes.
ScanTick ==
    /\ scan_now < MaxScanTime
    /\ scan_now' = scan_now + 1
    /\ last' = ScanEvent("tick", NoCurrent, 0, OK)
    /\ UNCHANGED <<session_vars, pdf_vars, ws_vars, hb_vars, cam_vars,
                   scanning_sessions, current_session>>

\* Line 20: the id of the session that start-session creates.
NewSessionId(t, sessions) == SessionIdAt(t)

\* Lines 22-30.
NewScanSession == [spreads |-> <<>>, status |-> "active"]

\* POST /start-session.
StartScanningSession ==
    LET session_id == NewSessionId(scan_now, scanning_sessions) IN
    /\ scanning_sessions' = Put(scanning_sessions, session_id, NewScanSession)
    /\ current_session' = session_id
    /\ last' = ScanEvent("start_session", session_id, 0, OK)
    /\ UNCHANGED <<session_vars, pdf_vars, ws_vars, hb_vars, cam_vars, scan_now>>

\* A handler that raised: its HTTPException(404) is caught by its own
\* "except Exception" and answered as 500; nothing is written.
ScanFails(op, index) ==
    /\ last' = ScanEvent(op, current_session, index, Internal)
    /\ UNCHANGED <<session_vars, pdf_vars, ws_vars, hb_vars, cam_vars, scan_vars>>

\* Lines 77-88.
NewSpread(spread_index, spread_data) ==
    [spread_index |-> spread_index,
     left_page |-> Get(spread_data, "left_page", NoneId),
     page_numbers |-> Get(spread_data, "page_numbers", <<>>),
     status |-> "captured"]

\* POST /capture-spread.
CaptureSpread(spread_data) ==
    IF NoActiveSession THEN ScanFails("capture_spread", 0)
    ELSE LET session == scanning_sessions[current_session]
             spread_index == Len(session.spreads) IN
         /\ spread_index < MaxSpreads
         /\ scanning_sessions' =
                [scanning_sessions EXCEPT ![current_session].spreads =
                    Append(@, NewSpread(spread_index, spread_data))]
         /\ last' = ScanEvent("capture_spread", current_session, spread_index, OK)
         /\ UNCHANGED <<session_vars, pdf_vars, ws_vars, hb_vars, cam_vars,
                        scan_now, current_session>>

\* Lines 110-114: the position (from 1) of session["spreads"][spread_index],
\* 0 when the handler raises.  The guard of line 110 lets negative indexes
\* through; the list counts them from its end and raises IndexError past
\* its start.
SpreadPosition(spread_index, length) ==
    IF spread_index >= length THEN 0
    ELSE IF spread_index >= 0 THEN spread_index + 1
    ELSE IF length + spread_index >= 0 THEN length + spread_index + 1
    ELSE 0

\* Lines 115-124: spread.update(...).
RetakenSpread(spread, spread_data) ==
    [spread EXCEPT !.left_page = Get(spread_data, "left_page", spread.left_page),
                   !.status = "retaken"]

\* PUT /retake-spread/{spread_index}.
RetakeSpread(spread_index, spread_data) ==
    IF NoActiveSession THEN ScanFails("retake_spread", spread_index)
    ELSE LET session == scanning_sessions[current_session]
             position == SpreadPosition(spread_index, Len(session.spreads)) IN
         IF position = 0 THEN ScanFails("retake_spread", spread_index)
         ELSE /\ scanning_sessions' =
                     [scanning_sessions EXCEPT ![current_session].spreads[position] =
                         RetakenSpread(@, spread_data)]
              /\ last' = ScanEvent("retake_spread", current_session, spread_index, OK)
              /\ UNCHANGED <<session_vars, pdf_vars, ws_vars, hb_vars, cam_vars,
                             scan_now, current_session>>

\* POST /end-session.
EndScanningSession ==
    IF NoActiveSession THEN ScanFails("end_session", 0)
    ELSE /\ scanning_sessions' =
                [scanning_sessions EXCEPT ![current_session].status = "completed"]
         /\ current_session' = NoCurrent
         /\ last' = ScanEvent("end_session", current_session, 0, OK)
         /\ UNCHANGED <<session_vars, pdf_vars, ws_vars, hb_vars, cam_vars, scan_now>>

\* Mutant: delete-session leaves current_session as it is.
CurrentAfterDeleteKept(current, session_id) == current

\* Lines 191-192.
CurrentAfterDelete(current, session_id) ==
    IF current = session_id THEN NoCurrent ELSE current

\* DELETE /session/{session_id}: its 404 is raised outside any try.
DeleteSession(session_id) ==
    IF session_id \notin DOMAIN scanning_sessions
    THEN /\ last' = ScanEvent("delete_session", session_id, 0, NotFound)
         /\ UNCHANGED <<session_vars, pdf_vars, ws_vars, hb_vars, cam_vars, scan_vars>>
    ELSE /\ current_session' = CurrentAfterDelete(current_session, session_id)
         /\ scanning_sessions' = Del(scanning_sessions, session_id)
         /\ last' = ScanEvent("delete_session", session_id, 0, OK)
         /\ UNCHANGED <<session_vars, pdf_vars, ws_vars, hb_vars, cam_vars, scan_now>>

NextScan ==
    \/ ScanTick
    \/ StartScanningSession
    \/ \E spread_data \in CaptureData : CaptureSpread(spread_data)
    \/ \E spread_index \in RetakeIndexes : \E spread_data \in RetakeData :
           RetakeSpread(spread_index, spread_data)
    \/ EndScanningSession
    \/ \E session_id \in ScanIds : DeleteSession(session_id)

SpecScan == Init /\ [][NextScan]_vars

----------------------------------------------------------------------------
(* camera.py: the camera configurations and streams.  No handler awaits. *)

\* The sides a request can name: the two the handlers accept, another
\* string, and none at all (configure only).
Sides == {"left", "right"}
RequestSides == Sides \cup {"top"}
CameraIds == {"camera_0", "camera_1"}

CamEvent(op, side, status, listed) ==
    [op |-> op, side |-> side, status |-> status, listed |-> listed]

\* Lines 58-63; resolution and rotation are stored and never read.
Configured(camera_id) == [camera_id |-> camera_id, active |-> FALSE]

\* A handler that raised: its HTTPException is caught by its own
\* "except Exception" and answered as 500; nothing is written.
CameraFails(op, side) ==
    /\ last' = CamEvent(op, side, Internal, {})
    /\ UNCHANGED <<session_vars, pdf_vars, ws_vars, hb_vars, scan_vars, cam_vars>>

\* POST /configure: any side that is not empty is taken as a key.
ConfigureCamera(camera_id, side) ==
    IF camera_id = NoneId \/ side = NoneId THEN CameraFails("configure", side)
    ELSE /\ connected_cameras' = Put(connected_cameras, side, Configured(camera_id))
         /\ last' = CamEvent("configure", side, OK, {})
         /\ UNCHANGED <<session_vars, pdf_vars, ws_vars, hb_vars, scan_vars,
                        camera_streams>>

\* POST /start/{side}.
StartCamera(side) ==
    IF side \notin Sides \/ side \notin DOMAIN connected_cameras
    THEN CameraFails("start", side)
    ELSE /\ connected_cameras' = [connected_cameras EXCEPT ![side].active = TRUE]
         /\ camera_streams' = Put(camera_streams, side, "streaming")
         /\ last' = CamEvent("start", side, OK, {})
         /\ UNCHANGED <<session_vars, pdf_vars, ws_vars, hb_vars, scan_vars>>

\* POST /stop/{side}.
StopCamera(side) ==
    IF side \notin Sides THEN CameraFails("stop", side)
    ELSE /\ connected_cameras' =
                IF side \in DOMAIN connected_cameras
                THEN [connected_cameras EXCEPT ![side].active = FALSE]
                ELSE connected_cameras
         /\ camera_streams' = Del(camera_streams, side)
         /\ last' = CamEvent("stop", side, OK, {})
         /\ UNCHANGED <<session_vars, pdf_vars, ws_vars, hb_vars, scan_vars>>

\* POST /capture/{side}: writes nothing.
CaptureImage(side) ==
    IF \/ side \notin Sides
       \/ side \notin DOMAIN connected_cameras
       \/ ~connected_cameras[side].active
    THEN CameraFails("capture", side)
    ELSE /\ last' = CamEvent("capture", side, OK, {})
         /\ UNCHANGED <<session_vars, pdf_vars, ws_vars, hb_vars, scan_vars, cam_vars>>

\* Line 120: "active_streams": list(camera_streams.keys()).
ActiveStreams == DOMAIN camera_streams

\* GET /status.
GetCameraStatus ==
    /\ last' = CamEvent("status", NoneId, OK, ActiveStreams)
    /\ UNCHANGED <<session_vars, pdf_vars, ws_vars, hb_vars, scan_vars, cam_vars>>

NextCamera ==
    \/ \E camera_id \in CameraIds \cup {NoneId}, side \in RequestSides \cup {NoneId} :
           ConfigureCamera(camera_id, side)
    \/ \E side \in RequestSides : StartCamera(side)
    \/ \E side \in RequestSides : StopCamera(side)
    \/ \E side \in RequestSides : CaptureImage(side)
    \/ GetCameraStatus

SpecCamera == Init /\ [][NextCamera]_vars

----------------------------------------------------------------------------
(* The request handlers, all served within one hour of the clock *)

Next ==
    \/ \E sid \in SessionIds \cup {NoneId}, iid \in ImageIds \cup {NoneId} :
           StoreTemporaryImageBegin(sid, iid)
    \/ \E u \in uploads, io_ok \in BOOLEAN : StoreTemporaryImageFinish(u, io_ok)
    \/ \E sid \in SessionIds, iid \in ImageIds : ProcessImage(sid, iid)
    \/ \E sid \in SessionIds : CleanupSession(sid)

Spec == Init /\ [][Next]_vars

(* Well-formed requests and expiry sweeps as the clock advances *)

NextExpiry ==
    \/ Tick
    \/ \E sid \in SessionIds : StoreTemporaryImageBegin(sid, "a")
    \/ \E u \in uploads : StoreTemporaryImageFinish(u, TRUE)
    \/ \E sid \in SessionIds : ProcessImage(sid, "a")
    \/ \E sid \in SessionIds : CleanupSession(sid)
    \/ CleanupOldSessions

SpecExpiry == Init /\ [][NextExpiry]_vars

(* The running server when no client calls a cleanup endpoint.  The only  *)
(* background task startup_event creates is check_heartbeat, which does   *)
(* not touch the sessions; nothing creates a task for periodic_cleanup.   *)

NextUnattended ==
    \/ Tick
    \/ \E sid \in SessionIds : StoreTemporaryImageBegin(sid, "a")
    \/ \E u \in uploads : StoreTemporaryImageFinish(u, TRUE)
    \/ \E sid \in SessionIds : ProcessImage(sid, "a")

SpecUnattended == Init /\ [][NextUnattended]_vars /\ WF_vars(Tick)

----------------------------------------------------------------------------
(* Claims about the session store *)

Images(sid) == active_sessions[sid].images

\* C1: no session's image list holds two records with the same image id,
\* also when the same (session id, image id) pair is uploaded twice.
C1_ImageIdsUnique ==
    \A s \in SessionIds :
        InStore(s) =>
            \A i, j \in 1..Len(Images(s)) :
                i # j => Images(s)[i].id # Images(s)[j].id

\* An upload or a per-image update of session record ses less than the
\* maximum age before t.
RecentActivity(ses, t) ==
    \E i \in 1..Len(ses.images) :
        \/ t - ses.images[i].stored_at < MAX_SESSION_AGE
        \/ /\ ses.images[i].processed_at # Never
           /\ t - ses.images[i].processed_at < MAX_SESSION_AGE

\* The step is an upload completing for an id that cleanup-session removed
\* and that is absent from the store.
UploadAfterDelete ==
    /\ last'.op = "store_temp"
    /\ last'.sid \in deleted
    /\ ~InStore(last'.sid)

\* C5 as claimed: an upload for a session id that cleanup-session deleted
\* fails with NotFound, appends no record and does not bring the session back.
C5_UploadAfterDeleteNotFound ==
    [][UploadAfterDelete =>
          /\ last'.status = NotFound
          /\ active_sessions' = active_sessions]_vars

\* C5 as amended: a well-formed upload for a session id that cleanup-session
\* deleted succeeds: it answers 200 and puts the session back into the store
\* with the upload time as creation time and the uploaded record as its only
\* image; the other sessions are unchanged.
C5_UploadAfterDeleteRecreates ==
    [][UploadAfterDelete =>
          LET s == last'.sid
          IN  /\ last'.status = OK
              /\ active_sessions'[s] # NoSession
              /\ active_sessions'[s].created = now
              /\ Len(active_sessions'[s].images) = 1
              /\ active_sessions'[s].images[1].id = last'.iid
              /\ active_sessions'[s].images[1].stored_at = now
              /\ [sid |-> s, iid |-> last'.iid] \in uploads
              /\ \A o \in SessionIds \ {s} :
                     active_sessions'[o] = active_sessions[o]]_vars

\* A deleted session brought back by an upload at a later hour.
C5_Witness ==
    /\ last.op = "store_temp"
    /\ last.status = OK
    /\ last.sid \in deleted
    /\ InStore(last.sid)
    /\ now > 0
    /\ active_sessions[last.sid].created = now

\* The session is absent from the store, or holds no record with the id.
Missing(sid, iid) ==
    \/ ~InStore(sid)
    \/ \A i \in 1..Len(Images(sid)) : Images(sid)[i].id # iid

\* C6: process-image for a session id absent from the store, or an image id
\* absent from the session, answers NotFound (not the generic Internal error)
\* and leaves every session's image records unchanged.
C6_ProcessMissingIsNotFound ==
    [][(last'.op = "process_image" /\ Missing(last'.sid, last'.iid)) =>
          /\ last'.status = NotFound
          /\ last'.status # Internal
          /\ active_sessions' = active_sessions]_vars

\* C7: cleanup-session answers success; for an id that is not in the store
\* (never there, or already deleted) it changes neither the store nor the
\* disk; for an id in the store it removes the session and its directory and
\* leaves every other session and directory unchanged.
C7_CleanupIdempotent ==
    [][last'.op = "cleanup_session" =>
          LET s == last'.sid
          IN  /\ last'.status = OK
              /\ last'.raised = NoRaise
              /\ IF ~InStore(s)
                 THEN /\ active_sessions' = active_sessions
                      /\ temp_dirs' = temp_dirs
                 ELSE /\ active_sessions'[s] = NoSession
                      /\ temp_dirs'[s] = NoDir
                      /\ \A o \in SessionIds \ {s} :
                             /\ active_sessions'[o] = active_sessions[o]
                             /\ temp_dirs'[o] = temp_dirs[o]]_vars

\* A repeated cleanup-session of a deleted id that left the disk alone: the
\* directory an upload made since the delete is still there, and the other
\* session is in the store.
C7_Witness ==
    /\ last.op = "cleanup_session"
    /\ last.sid \in deleted
    /\ ~InStore(last.sid)
    /\ temp_dirs[last.sid].exists
    /\ \E o \in SessionIds \ {last.sid} : InStore(o)

\* C8: a sweep at time now deletes exactly the sessions created more than
\* MAX_SESSION_AGE before now, leaves every other session (and directory)
\* unchanged, and returns the number of sessions it deleted.
C8_SweepDeletesExactlyExpired ==
    [][last'.op = "cleanup_old_sessions" =>
          /\ \A s \in SessionIds :
                 IF InStore(s) /\ now - active_sessions[s].created > MAX_SESSION_AGE
                 THEN active_sessions'[s] = NoSession /\ temp_dirs'[s] = NoDir
                 ELSE /\ active_sessions'[s] = active_sessions[s]
                      /\ temp_dirs'[s] = temp_dirs[s]
          /\ last'.count =
                 Cardinality({s \in SessionIds :
                                 InStore(s) /\ active_sessions'[s] = NoSession})
          /\ last'.status = OK]_vars

\* A sweep that deleted a session and kept one whose age is exactly the
\* maximum.
C8_Witness ==
    /\ last.op = "cleanup_old_sessions"
    /\ last.count = 1
    /\ Cardinality(last.removed) = 1
    /\ \E s \in SessionIds :
           InStore(s) /\ now - active_sessions[s].created = MAX_SESSION_AGE

\* C9 as claimed: a session with an upload or a per-image update less than
\* the maximum age before the sweep is not deleted by the sweep, however long
\* ago it was created.
C9_ActiveSessionSurvivesSweep ==
    [][last'.op = "cleanup_old_sessions" =>
          \A s \in SessionIds :
              (InStore(s) /\ RecentActivity(active_sessions[s], now)) =>
                  active_sessions'[s] = active_sessions[s]]_vars

\* C9 as amended: the window runs from the session's creation: a sweep keeps
\* every session created at most the maximum age before it, and deletes a
\* session created earlier even when it had an upload or a per-image update
\* less than the maximum age before the sweep.
C9_WindowRunsFromCreation ==
    [][last'.op = "cleanup_old_sessions" =>
          \A s \in SessionIds :
              InStore(s) =>
                  /\ now - active_sessions[s].created <= MAX_SESSION_AGE =>
                         active_sessions'[s] = active_sessions[s]
                  /\ (/\ now - active_sessions[s].created > MAX_SESSION_AGE
                      /\ RecentActivity(active_sessions[s], now)) =>
                         active_sessions'[s] = NoSession]_vars

\* A sweep that deleted a session with recent activity.
C9_Witness ==
    /\ last.op = "cleanup_old_sessions"
    /\ \E r \in last.removed : RecentActivity(r[2], now)

\* C10: the sweep runs in the background every CLEANUP_INTERVAL, so with no
\* client calling a cleanup endpoint no session stays in the store beyond the
\* maximum age plus one interval.
C10_BackgroundSweepDeletesExpired ==
    \A s \in SessionIds :
        InStore(s) =>
            now - active_sessions[s].created <= MAX_SESSION_AGE + CLEANUP_INTERVAL

----------------------------------------------------------------------------
(* Claims about the retention sweep of generated PDFs *)

\* The step is a handler that ran the retention sweep.
SweepStep == last'.op \in {"recent", "save_generated"}

\* The PDF files, oldest first, that the sweep of the step found: those of
\* the directory, with the saved file written as the newest by save-generated.
Before ==
    IF last'.op = "save_generated" THEN WriteFile(pdf_files, last'.filename)
    ELSE pdf_files

\* The files beyond the keep-count of the step: all but its newest keep files.
Doomed ==
    IF last'.keep >= Len(Before) THEN {}
    ELSE Range(SubSeq(Before, 1, Len(Before) - last'.keep))

\* C2: for a directory of N PDF files and a keep-count K with 0 <= K < N, a
\* sweep in which no deletion fails, run by recent-list or by save-generated,
\* removes exactly N-K files and reports that number; the removed files are
\* the N-K oldest and the K newest remain, in their order.
C2_SweepRemovesOldest ==
    [][(/\ SweepStep
        /\ last'.fails = {}
        /\ 0 <= last'.keep
        /\ last'.keep < Len(Before)) =>
          LET N == Len(Before)
              K == last'.keep
          IN  /\ Len(pdf_files') = K
              /\ last'.count = N - K
              /\ Range(SubSeq(Before, 1, N - K)) \cap Range(pdf_files') = {}
              /\ pdf_files' = SubSeq(Before, N - K + 1, N)]_vars

\* A recent-list with limit 2 that removed the four oldest of six files.
C2_Witness ==
    /\ last.op = "recent"
    /\ last.keep = 2
    /\ last.fails = {}
    /\ last.count = 4
    /\ Len(pdf_files) = 2

\* C3: after a sweep, whatever deletions failed, a PDF the sweep removed has
\* no same-stem .json sidecar left in the directory, and the sidecar of a PDF
\* the sweep kept is still there.
C3_SidecarRemovedWithPdf ==
    [][SweepStep =>
          \A n \in Range(Before) :
              IF n \notin Range(pdf_files')
              THEN WithSuffixJson(n) \notin sidecars'
              ELSE WithSuffixJson(n) \in sidecars =>
                       WithSuffixJson(n) \in sidecars']_vars

\* C4: in a sweep where deletions fail, every file beyond the keep-count
\* whose own deletion did not fail is deleted, the files within the
\* keep-count remain, and the count returned is the number of PDF files
\* deleted.
C4_FailureDoesNotAbort ==
    [][SweepStep =>
          /\ \A n \in Doomed : n \notin last'.fails => n \notin Range(pdf_files')
          /\ \A n \in Range(Before) \ Doomed : n \in Range(pdf_files')
          /\ last'.count = Cardinality(Range(Before) \ Range(pdf_files'))]_vars

\* A recent-list with limit 0 over three files: one deletion failed and its
\* file is still there, the other two files were deleted and counted.
C4_Witness ==
    /\ last.op = "recent"
    /\ last.keep = 0
    /\ last.count = 2
    /\ Len(pdf_files) = 1
    /\ pdf_files[1] \in last.fails

----------------------------------------------------------------------------
(* Claims about image processing *)

\* A margin of the last apply_trim call, a negative or missing one counted
\* as 0.
Margin(key) ==
    IF key \in DOMAIN last.trim_settings /\ last.trim_settings[key] > 0
    THEN last.trim_settings[key] ELSE 0

\* C11: apply_trim on a readable W x H image: when left+right < W and
\* top+bottom < H (negative margins counted as 0) it writes one image of
\* (W-left-right) x (H-top-bottom) to a new path that carries the trim
\* suffix and returns that path; otherwise it writes nothing and returns the
\* path it was given.
C11_TrimDimensions ==
    (last.op = "apply_trim" /\ last.img.readable) =>
        LET W == last.img.width
            H == last.img.height
            n == Len(last.result)
        IN  IF /\ Margin("left") + Margin("right") < W
               /\ Margin("top") + Margin("bottom") < H
            THEN /\ last.written =
                       {WrittenImage(last.result,
                                     W - Margin("left") - Margin("right"),
                                     H - Margin("top") - Margin("bottom"))}
                 /\ last.result # last.image_path
                 /\ last.result[n - 1] = "_trimmed"
                 /\ last.result[n] = ".jpg"
            ELSE /\ last.written = {}
                 /\ last.result = last.image_path

\* A trim with a negative margin and positive ones that wrote a 1 x 2 image.
C11_Witness ==
    /\ last.op = "apply_trim"
    /\ last.img = Picture(3, 3)
    /\ DOMAIN last.trim_settings = TrimKeys
    /\ last.trim_settings["top"] = -1
    /\ last.trim_settings["bottom"] = 1
    /\ last.trim_settings["left"] = 2
    /\ last.trim_settings["right"] = 0
    /\ last.written = {WrittenImage(ReplaceJpg(last.image_path, "_trimmed"), 1, 2)}

\* C12: process-image for a session and image in the store answers 200
\* whatever stages fail; each stage that failed returned the path it was
\* given; the record holds the processed and thumbnail paths returned; and
\* when every stage that ran failed, both are the original image path.
C12_StageFailuresDegrade ==
    [][(last'.op = "process_image" /\ ~Missing(last'.sid, last'.iid)) =>
          LET st == last'.stages
              i == FindImage(Images(last'.sid), last'.iid, 1)
              r == active_sessions'[last'.sid].images[i]
          IN  /\ last'.status = OK
              /\ \A x \in Stages : st[x].failed => st[x].output = st[x].input
              /\ r.processed_path = last'.processed_path
              /\ r.thumbnail_path = last'.thumbnail_path
              /\ (\A x \in Stages : st[x].ran => st[x].failed) =>
                     /\ r.processed_path = last'.original_path
                     /\ r.thumbnail_path = last'.original_path]_vars

\* A process-image with trim and enhancement in which all three stages
\* failed, answered 200.
C12_Witness ==
    /\ last.op = "process_image"
    /\ last.status = OK
    /\ \A x \in Stages : last.stages[x].ran /\ last.stages[x].failed
    /\ last.thumbnail_path = last.original_path

\* C13: a successful upload for an id absent from the store creates the
\* session with the current time, no output name and the uploaded record as
\* its only image; a successful upload for an id in the store appends one
\* record with the uploaded id at the end and leaves creation time, output
\* name and earlier records unchanged; no other step but cleanup changes a
\* session; and session-info answers with the ids in the order of the list
\* and image_count its length.
C13_UploadsAppendInOrder ==
    [][/\ (last'.op = "store_temp" /\ last'.status = OK) =>
             LET s == last'.sid
                 new == active_sessions'[s]
             IN  /\ new # NoSession
                 /\ IF ~InStore(s)
                    THEN new = [created |-> now, pdf_name |-> "None",
                                images |-> <<ImageRecord(last'.iid, now)>>]
                    ELSE /\ new.created = active_sessions[s].created
                         /\ new.pdf_name = active_sessions[s].pdf_name
                         /\ Len(new.images) = Len(Images(s)) + 1
                         /\ SubSeq(new.images, 1, Len(Images(s))) = Images(s)
                         /\ new.images[Len(new.images)].id = last'.iid
                 /\ \A o \in SessionIds \ {s} :
                        active_sessions'[o] = active_sessions[o]
       /\ (\/ last'.op \in {"store_temp_begin", "session_info", "tick"}
           \/ (last'.op = "store_temp" /\ last'.status # OK)) =>
             active_sessions' = active_sessions
       /\ (last'.op = "session_info" /\ InStore(last'.sid)) =>
             /\ last'.status = OK
             /\ last'.created = active_sessions[last'.sid].created
             /\ last'.image_count = Len(Images(last'.sid))
             /\ Len(last'.images) = Len(Images(last'.sid))
             /\ \A i \in 1..Len(Images(last'.sid)) :
                    last'.images[i].id = Images(last'.sid)[i].id]_vars

\* A session-info, an hour or more after the session was created, that
\* lists image b before image a, uploaded in that order.
C13_Witness ==
    /\ last.op = "session_info"
    /\ last.status = OK
    /\ last.image_count = 2
    /\ last.images[1].id = "b"
    /\ last.images[2].id = "a"
    /\ now > last.created
    /\ Images(last.sid)[1].stored_at < Images(last.sid)[2].stored_at

\* C14: an upload whose metadata lacks the session id or the image id is
\* answered with the Validation outcome (400, not the generic 500), and
\* changes neither the directories and files on disk nor the session store.
C14_MissingIdIsValidation ==
    [][(/\ last'.op = "store_temp"
        /\ (last'.sid = NoneId \/ last'.iid = NoneId)) =>
          /\ last'.status = BadRequest
          /\ last'.status # Internal
          /\ temp_dirs' = temp_dirs
          /\ active_sessions' = active_sessions]_vars

\* C15: under every interleaving of the requests at their await points,
\* each image record in the session store refers to a file that exists in
\* the temporary directory of its session.
C15_RecordsHaveFiles ==
    \A s \in SessionIds :
        InStore(s) =>
            \A i \in 1..Len(Images(s)) :
                /\ temp_dirs[s].exists
                /\ Images(s)[i].id \in FilesOf(temp_dirs, s)

----------------------------------------------------------------------------
(* Claims about the WebSocket endpoints *)

\* The step is one of the handler or of the client of connection c.
StepOf(c) == "conn" \in DOMAIN last' /\ last'.conn = c

\* C16: a broadcast that has ended has tried to send to every connection
\* that was in the list when it started and is in the list now; and a failed
\* send removes the connection it failed for, and no other, from the list.
C16_BroadcastSkipsNoConnection ==
    [][/\ ("conn" \in DOMAIN last' /\ last'.op = "broadcast_done") =>
             \A x \in Range(handlers[last'.conn].snapshot) :
                 x \in Range(active_connections) =>
                     x \in handlers[last'.conn].attempted
       /\ ("conn" \in DOMAIN last' /\ last'.op = "broadcast_send"
               /\ last'.sent = "failed") =>
             active_connections' =
                 SelectSeq(active_connections, LAMBDA x : x # last'.message)]_vars

\* C17: the active-connection list holds no connection twice, only
\* connections whose handler is running, and no connection whose handler has
\* ended; and no handler ended with the error of a failed removal.
C17_ListIsRunningHandlers ==
    /\ \A i, j \in 1..Len(active_connections) :
           i # j => active_connections[i] # active_connections[j]
    /\ \A c \in Conns :
           /\ c \in Range(active_connections) => Running(c)
           /\ handlers[c].pc \in {"ended", "crashed"} =>
                  /\ c \notin Range(active_connections)
                  /\ handlers[c].error # "ValueError"

\* C18: handling start_stream starts the stream with frame number 0; while
\* the stream runs the only steps of the handler are the send of the frame
\* with the next number and the end of the stream on a lost connection, so
\* no client message is taken; and the next frame is eventually sent unless
\* the connection is lost.
C18_StreamRunsUntilLost ==
    /\ [][\A c \in Conns :
             /\ (/\ StepOf(c)
                 /\ last'.op = "message"
                 /\ last'.message = "start_stream"
                 /\ Endpoint(c) = CameraStream) =>
                    /\ handlers'[c].pc = "streaming"
                    /\ handlers'[c].frame_count = 0
             /\ handlers[c].pc = "streaming" =>
                    \/ /\ handlers'[c] = handlers[c]
                       /\ StepOf(c) => last'.op = "client_close"
                    \/ /\ StepOf(c)
                       /\ last'.op = "frame"
                       /\ last'.sent = handlers[c].frame_count
                       /\ ws_open[c]
                       /\ handlers'[c].pc = "streaming"
                       /\ handlers'[c].frame_count = handlers[c].frame_count + 1
                    \/ /\ StepOf(c)
                       /\ last'.op = "stream_lost"
                       /\ ~ws_open[c]
                       /\ handlers'[c].pc = "receiving"]_vars
    /\ \A c \in Conns : \A n \in 0..(MaxFrames - 1) :
           (handlers[c].pc = "streaming" /\ handlers[c].frame_count = n)
               ~> \/ handlers[c].pc = "streaming" /\ handlers[c].frame_count = n + 1
                  \/ ~ws_open[c]

\* The stream has sent frames 0 and 1 while its client, still connected,
\* waits for an answer to a later message.
C18_Witness ==
    /\ last.op = "frame"
    /\ last.sent = 1
    /\ handlers[last.conn].pc = "streaming"
    /\ handlers[last.conn].frame_count = 2
    /\ ws_open[last.conn]

----------------------------------------------------------------------------
(* Claims about the heartbeat monitor *)

\* C19: the server does not stay up through a silence longer than the
\* timeout: the monitor notices it within one interval of its loop and its
\* delayed shutdown ends the server one delay later, so while the server is
\* up the last heartbeat is never older than timeout + interval + delay.
C19_SilenceShutsDown ==
    server = "up" =>
        clock - last_heartbeat <= heartbeat_timeout + CHECK_INTERVAL + SHUTDOWN_DELAY

\* C20: a heartbeat that arrives while the monitor's delayed shutdown
\* sleeps cancels it, sets the last-heartbeat time to the arrival time and
\* leaves the server up; and the monitor's delayed shutdown ends the server
\* only when no heartbeat arrived since the timeout ran out.
C20_HeartbeatCancelsShutdown ==
    [][/\ (last'.op = "heartbeat" /\ shutdown_task.state = "sleeping") =>
             /\ shutdown_task' = NoTask
             /\ last_heartbeat' = clock
             /\ server' = "up"
       /\ (last'.op = "delayed_shutdown" /\ server' = "down" /\ server = "up") =>
             clock - last_heartbeat > heartbeat_timeout]_vars

\* A heartbeat has just cancelled the shutdown the monitor had scheduled.
C20_Witness ==
    /\ last.op = "heartbeat"
    /\ last.cancelled
    /\ last_heartbeat = clock
    /\ shutdown_task = NoTask
    /\ monitor = EndedTask
    /\ server = "up"

----------------------------------------------------------------------------
(* Claims about the scanning sessions *)

\* C21: a successful start-session puts the new session under an id that was
\* not in the store, so the store grows by one session and every session
\* that was in it is left as it was.
C21_StartCreatesNewSession ==
    [][last'.op = "start_session" =>
          /\ current_session' \notin DOMAIN scanning_sessions
          /\ Cardinality(DOMAIN scanning_sessions') =
                 Cardinality(DOMAIN scanning_sessions) + 1
          /\ \A sid \in DOMAIN scanning_sessions :
                 /\ sid \in DOMAIN scanning_sessions'
                 /\ scanning_sessions'[sid] = scanning_sessions[sid]]_vars

\* C22: the current session is unset, or the id of a stored session whose
\* status is active.
C22_CurrentIsActive ==
    \/ current_session = NoCurrent
    \/ /\ current_session \in DOMAIN scanning_sessions
       /\ scanning_sessions[current_session].status = "active"

\* A session was deleted while another one, still active, is current.
C22_Witness ==
    /\ last.op = "delete_session"
    /\ last.status = OK
    /\ current_session # NoCurrent
    /\ current_session # last.sid
    /\ current_session \in DOMAIN scanning_sessions
    /\ scanning_sessions[current_session].spreads # <<>>

\* C23: retake-spread of the current session with an index outside
\* 0..(number of spreads - 1) fails and changes no spread; with an index
\* inside it changes the spread at that position only and keeps its
\* spread_index, its page numbers and the number of spreads.
C23_RetakeOnlyInRange ==
    [][(last'.op = "retake_spread" /\ ~NoActiveSession) =>
          LET spreads == scanning_sessions[current_session].spreads
              spreads_after == scanning_sessions'[current_session].spreads IN
          IF last'.index \in 0..(Len(spreads) - 1)
          THEN /\ last'.status = OK
               /\ Len(spreads_after) = Len(spreads)
               /\ \A i \in 1..Len(spreads) :
                      IF i = last'.index + 1
                      THEN /\ spreads_after[i].spread_index = spreads[i].spread_index
                           /\ spreads_after[i].page_numbers = spreads[i].page_numbers
                      ELSE spreads_after[i] = spreads[i]
               /\ \A sid \in DOMAIN scanning_sessions \ {current_session} :
                      scanning_sessions'[sid] = scanning_sessions[sid]
          ELSE /\ last'.status # OK
               /\ scanning_sessions' = scanning_sessions]_vars

\* C24: a session that end-session completed keeps its spread list and its
\* completed status for as long as it is stored, and capture-spread and
\* retake-spread fail while no session is current.
C24_CompletedNeverChanges ==
    [][/\ \A sid \in DOMAIN scanning_sessions :
             (scanning_sessions[sid].status = "completed"
                 /\ sid \in DOMAIN scanning_sessions') =>
                 scanning_sessions'[sid] = scanning_sessions[sid]
       /\ (last'.op \in {"capture_spread", "retake_spread"}
              /\ current_session = NoCurrent) =>
             /\ last'.status # OK
             /\ scanning_sessions' = scanning_sessions]_vars

----------------------------------------------------------------------------
(* Claims about the cameras *)

\* C25: a side is among the active streams that the camera status reports
\* exactly when a configuration exists for it and its active flag is true.
C25_StreamsAreActiveCameras ==
    \A side \in RequestSides :
        side \in ActiveStreams <=>
            /\ side \in DOMAIN connected_cameras
            /\ connected_cameras[side].active

----------------------------------------------------------------------------
(* Claims about the session directories and the PDF sidecars *)

\* C26: once no upload to a session is under way, the session's temporary
\* directory exists only if the session id is in the session store (where
\* cleanup-session finds it and removes the directory).
C26_DirOnlyWithSession ==
    \A sid \in SessionIds :
        (temp_dirs[sid].exists /\ \A u \in uploads : u.sid # sid) => InStore(sid)

\* Path.stem: the name without its last suffix.
Stem(name) == SubSeq(name, 1, Len(name) - 1)

\* C27: every sidecar shares its stem with a PDF in the directory and
\* records that PDF's filename and the byte size of its current contents.
C27_SidecarDescribesPdf ==
    \A m \in sidecars :
        \E f \in Range(pdf_files) :
            /\ Stem(f) = Stem(m)
            /\ file_contents[m].filename = f
            /\ file_contents[m].file_size = file_contents[f]

=============================================================================
